---- MODULE Spec2Model ----
(***************************************************************************)
(* Model of the chunking + lexical retrieval engine:                       *)
(*   TextProcessor      (src/src/data_processor.py)                        *)
(*   SimpleRAGPipeline  (src/src/simple_rag_pipeline.py)                   *)
(* Python str values are TLA+ strings; Len, SubSeq and \o act on them as   *)
(* on sequences of characters.  Python dicts are functions on their keys.  *)
(***************************************************************************)
EXTENDS Integers, Sequences, FiniteSets, TLC

VARIABLES
    chunk_size,     \* TextProcessor.chunk_size
    chunk_overlap,  \* TextProcessor.chunk_overlap
    pc,             \* the call that is pending (call_...) or completed last
    text,           \* argument of the last chunk_text call
    article,        \* argument of the last process_article call
    chunks,         \* return value of the last chunk_text / process_article
    documents,      \* SimpleRAGPipeline.documents
    question,       \* argument of the last query call
    top_k,          \* argument of the last query call
    result,         \* QueryResult returned by the last query call
    added,          \* argument of the add_documents call, when it was the
                    \* last call
    loaded,         \* number of chunks of the document being ingested that
                    \* the loading loop has passed to add_documents
    scan,           \* the `for i, doc in enumerate(self.documents)` loop of
                    \* a query call that has not returned yet
    heap,           \* the dict objects the caller and the pipeline share,
                    \* by address
    ranked,         \* two relevant_docs lists and the confidence computed
                    \* from each
    cleaned,        \* return value of the last clean_text call
    extracted,      \* return value of the last extract_sections call
    relevant        \* return value of the get_relevant_documents call, when
                    \* it was the last call

vars == <<chunk_size, chunk_overlap, pc, text, article, chunks,
          documents, question, top_k, result, added, loaded, scan, heap,
          ranked, cleaned, extracted, relevant>>

(***************************************************************************)
(* Bounds of the model.                                                    *)
(***************************************************************************)
MaxTextLen == 6
MaxChunkSize == 3
MaxDocs == 3
MaxTopK == 3

(***************************************************************************)
(* Python str helpers.                                                     *)
(***************************************************************************)
Min(a, b) == IF a < b THEN a ELSE b
Max(a, b) == IF a > b THEN a ELSE b

\* s[i-1:j] with 1-based inclusive bounds, clipped to s as a Python slice is
Slice(s, i, j) ==
    IF i > Len(s) \/ j < i THEN "" ELSE SubSeq(s, Max(i, 1), Min(j, Len(s)))

\* the character at index i, "" outside s
At(s, i) == Slice(s, i, i)

\* characters str.strip() / str.split() / regex \s treat as whitespace
Whitespace == {" ", "\n", "\t", "\r", "\f"}

\* s[:n] for n >= 0
Prefix(s, n) == Slice(s, 1, Min(n, Len(s)))

\* s[-n:] for n > 0
LastChars(s, n) == Slice(s, Max(1, Len(s) - n + 1), Len(s))

\* s[i:] with a 1-based i
From(s, i) == Slice(s, i, Len(s))

RECURSIVE lstrip(_)
lstrip(s) ==
    IF s # "" /\ At(s, 1) \in Whitespace THEN lstrip(From(s, 2)) ELSE s

RECURSIVE rstrip(_)
rstrip(s) ==
    IF s # "" /\ At(s, Len(s)) \in Whitespace
    THEN rstrip(Slice(s, 1, Len(s) - 1)) ELSE s

strip(s) == lstrip(rstrip(s))

StartsWith(s, p) == Len(p) <= Len(s) /\ Slice(s, 1, Len(p)) = p

EndsWith(s, p) ==
    p = "" \/ (Len(p) <= Len(s) /\ LastChars(s, Len(p)) = p)

\* p in s
Contains(s, p) ==
    \E i \in 1..(Len(s) - Len(p) + 1) : Slice(s, i, i + Len(p) - 1) = p

(***************************************************************************)
(* sent_tokenize, the regex fallback of data_processor.py:                 *)
(*   sentences = re.split(r'[.!?]+', text)                                 *)
(*   return [s.strip() for s in sentences if s.strip()]                    *)
(***************************************************************************)
SentenceEnd == {".", "!", "?"}

\* re.split(r'[.!?]+', s): the pieces between maximal runs of . ! ?
RECURSIVE SplitRuns(_, _, _)
SplitRuns(s, i, piece) ==
    IF i > Len(s) THEN <<piece>>
    ELSE IF At(s, i) \in SentenceEnd
         THEN IF i > 1 /\ At(s, i - 1) \in SentenceEnd
              THEN SplitRuns(s, i + 1, piece)
              ELSE <<piece>> \o SplitRuns(s, i + 1, "")
         ELSE SplitRuns(s, i + 1, piece \o At(s, i))

RECURSIVE StripNonEmpty(_)
StripNonEmpty(ps) ==
    IF ps = <<>> THEN <<>>
    ELSE IF strip(Head(ps)) # ""
         THEN <<strip(Head(ps))>> \o StripNonEmpty(Tail(ps))
         ELSE StripNonEmpty(Tail(ps))

sent_tokenize(s) == StripNonEmpty(SplitRuns(s, 1, ""))

(***************************************************************************)
(* TextProcessor.chunk_text                                                *)
(***************************************************************************)
EmptyDict == [k \in {} |-> ""]

\* `metadata or {}`
OrEmpty(metadata) == IF DOMAIN metadata = {} THEN EmptyDict ELSE metadata

\* variant: the overlap taken from the head of the buffer,
\* `current_chunk[:self.chunk_overlap]`
OverlapTextHead(current_chunk, overlap) ==
    IF current_chunk # "" THEN Prefix(current_chunk, overlap) ELSE ""

\* `current_chunk[-self.chunk_overlap:] if current_chunk else ""`
OverlapText(current_chunk, overlap) ==
    IF current_chunk # "" THEN LastChars(current_chunk, overlap) ELSE ""

\* one iteration of `for sentence in sentences`; st is the loop state
\* [chunks, current_chunk, current_length]
ChunkStep(st, sentence, size, overlap, metadata) ==
    LET sentence_length == Len(sentence) IN
    IF st.current_length + sentence_length > size
    THEN LET saved == IF st.current_chunk # ""
                      THEN Append(st.chunks,
                                  [text |-> strip(st.current_chunk),
                                   metadata |-> OrEmpty(metadata)])
                      ELSE st.chunks
         IN IF overlap > 0
            THEN LET overlap_text == OverlapText(st.current_chunk, overlap)
                     seeded == overlap_text \o " " \o sentence
                 IN [chunks |-> saved,
                     current_chunk |-> seeded,
                     current_length |-> Len(seeded)]
            ELSE [chunks |-> saved,
                  current_chunk |-> sentence,
                  current_length |-> sentence_length]
    ELSE [chunks |-> st.chunks,
          current_chunk |-> st.current_chunk \o " " \o sentence,
          current_length |-> st.current_length + sentence_length]

RECURSIVE ChunkLoop(_, _, _, _, _)
ChunkLoop(st, sentences, size, overlap, metadata) ==
    IF sentences = <<>> THEN st
    ELSE ChunkLoop(ChunkStep(st, Head(sentences), size, overlap, metadata),
                   Tail(sentences), size, overlap, metadata)

ChunkLoopStart == [chunks |-> <<>>, current_chunk |-> "", current_length |-> 0]

\* variant: chunk_text without the `# Add final chunk` step
chunk_text_no_flush(t, metadata, size, overlap) ==
    IF t = "" THEN <<>>
    ELSE ChunkLoop(ChunkLoopStart, sent_tokenize(t), size, overlap,
                   metadata).chunks

chunk_text(t, metadata, size, overlap) ==
    IF t = "" THEN <<>>
    ELSE LET st == ChunkLoop(ChunkLoopStart, sent_tokenize(t), size, overlap,
                             metadata)
         IN IF strip(st.current_chunk) # ""
            THEN Append(st.chunks, [text |-> strip(st.current_chunk),
                                    metadata |-> OrEmpty(metadata)])
            ELSE st.chunks

(***************************************************************************)
(* TextProcessor.clean_text                                                *)
(***************************************************************************)
LowerCase == "abcdefghijklmnopqrstuvwxyz"
UpperCase == "ABCDEFGHIJKLMNOPQRSTUVWXYZ"
Digits == "0123456789"

CharsOf(s) == {At(s, i) : i \in 1..Len(s)}

Letters == CharsOf(LowerCase) \cup CharsOf(UpperCase)

LowerChar(c) ==
    IF c \in CharsOf(UpperCase)
    THEN At(LowerCase, CHOOSE i \in 1..Len(UpperCase) : At(UpperCase, i) = c)
    ELSE c

\* str.lower()
RECURSIVE lower(_)
lower(s) ==
    IF Len(s) <= 1 THEN LowerChar(s)
    ELSE LET half == Len(s) \div 2
         IN lower(Prefix(s, half)) \o lower(From(s, half + 1))

\* first index >= i of s whose character is in (inSet = TRUE) or not in
\* (inSet = FALSE) cs; Len(s) + 1 when there is none
RECURSIVE Scan(_, _, _, _)
Scan(s, i, cs, inSet) ==
    IF i > Len(s) THEN Len(s) + 1
    ELSE IF (At(s, i) \in cs) = inSet THEN i
    ELSE Scan(s, i + 1, cs, inSet)

\* re.sub(r'<[^>]+>', '', s), scanning from index i
RECURSIVE RemoveTags(_, _)
RemoveTags(s, i) ==
    IF i > Len(s) THEN ""
    ELSE LET close == Scan(s, i + 1, {">"}, TRUE)
         IN IF At(s, i) = "<" /\ close <= Len(s) /\ close >= i + 2
            THEN RemoveTags(s, close + 1)
            ELSE At(s, i) \o RemoveTags(s, i + 1)

\* the characters the URL pattern repeats after "://": [a-zA-Z], [0-9],
\* the range [$-_] with @ . & +, and ! * \ ( ) ,
UrlChars ==
    Letters \cup CharsOf(Digits)
    \cup CharsOf("$%&'()*+,-./:;<=>?@[\\]^_!")

\* re.sub(r'http[s]?://(?:...)+', '', s), scanning from index i
RECURSIVE RemoveUrls(_, _)
RemoveUrls(s, i) ==
    IF i > Len(s) THEN ""
    ELSE LET j == IF Slice(s, i + 4, i + 4) = "s" THEN i + 5 ELSE i + 4
             body == j + 3
             stop == Scan(s, body, UrlChars, FALSE)
         IN IF /\ i + 3 <= Len(s) /\ Slice(s, i, i + 3) = "http"
               /\ j + 2 <= Len(s) /\ Slice(s, j, j + 2) = "://"
               /\ stop > body
            THEN RemoveUrls(s, stop)
            ELSE At(s, i) \o RemoveUrls(s, i + 1)

\* whitespace of regex \s and of str.split()
RegexSpace == Whitespace

\* re.sub(r'\S+@\S+', '', s), scanning from index i
RECURSIVE RemoveEmails(_, _)
RemoveEmails(s, i) ==
    IF i > Len(s) THEN ""
    ELSE LET stop == Scan(s, i, RegexSpace, TRUE)
         IN IF \E k \in (i + 1)..(stop - 2) : At(s, k) = "@"
            THEN RemoveEmails(s, stop)
            ELSE At(s, i) \o RemoveEmails(s, i + 1)

\* re.sub(r'[^a-zA-Z\s]', ' ', s)
RECURSIVE BlankNonLetters(_)
BlankNonLetters(s) ==
    IF s = "" THEN ""
    ELSE (IF At(s, 1) \in Letters \cup RegexSpace THEN At(s, 1) ELSE " ")
         \o BlankNonLetters(From(s, 2))

\* str.split(): the maximal runs of non-whitespace characters
RECURSIVE split(_)
split(s) ==
    LET start == Scan(s, 1, RegexSpace, FALSE)
        stop == Scan(s, start, RegexSpace, TRUE)
    IN IF start > Len(s) THEN <<>>
       ELSE <<Slice(s, start, stop - 1)>> \o split(From(s, stop))

\* ' '.join(words)
RECURSIVE JoinSpace(_)
JoinSpace(words) ==
    IF words = <<>> THEN ""
    ELSE IF Len(words) = 1 THEN words[1]
    ELSE words[1] \o " " \o JoinSpace(Tail(words))

\* variant: the last step replaced by `text = text.replace('  ', ' ')`
RECURSIVE ReplaceDoubleSpace(_, _)
ReplaceDoubleSpace(s, i) ==
    IF i > Len(s) THEN ""
    ELSE IF Slice(s, i, i + 1) = "  " THEN " " \o ReplaceDoubleSpace(s, i + 2)
    ELSE At(s, i) \o ReplaceDoubleSpace(s, i + 1)

clean_text_replace(t) ==
    IF t = "" THEN ""
    ELSE ReplaceDoubleSpace(BlankNonLetters(
             RemoveEmails(RemoveUrls(RemoveTags(lower(t), 1), 1), 1)), 1)

clean_text(t) ==
    IF t = "" THEN ""
    ELSE JoinSpace(split(BlankNonLetters(
             RemoveEmails(RemoveUrls(RemoveTags(lower(t), 1), 1), 1))))

(***************************************************************************)
(* TextProcessor.extract_sections                                          *)
(* Every pattern has the shape  label \s* [\n] (.*?) (?=lookahead)  and is *)
(* searched with re.DOTALL in the lowercased text.                         *)
(***************************************************************************)
\* the lookahead succeeds at index q: \n\s*\n, or \n followed by one of the
\* labels, or (atEnd) $
LookAhead(s, q, labels, atEnd) ==
    \/ /\ At(s, q) = "\n"
       /\ \E m \in (q + 1)..Len(s) :
              /\ At(s, m) = "\n"
              /\ \A x \in (q + 1)..(m - 1) : At(s, x) \in RegexSpace
    \/ \E l \in labels : Slice(s, q, q + Len(l)) = "\n" \o l
    \/ /\ atEnd
       /\ \/ q = Len(s) + 1
          \/ q = Len(s) /\ At(s, q) = "\n"

\* the capture starts the pattern tries after a label that ends at e - 1:
\* behind each \n of the whitespace run (newline = TRUE) or anywhere in the
\* whitespace run (newline = FALSE)
CaptureStarts(s, e, newline) ==
    LET w == Scan(s, e, RegexSpace, FALSE)
    IN IF newline THEN {n + 1 : n \in {x \in e..(w - 1) : At(s, x) = "\n"}}
       ELSE e..w

\* the captures (.*?) can take from c: it ends before the first index at
\* which the lookahead succeeds
Ends(s, c, labels, atEnd) ==
    {q \in c..(Len(s) + 1) : LookAhead(s, q, labels, atEnd)}

SetMin(S) == CHOOSE x \in S : \A y \in S : x <= y
SetMax(S) == CHOOSE x \in S : \A y \in S : x >= y

\* the capture starts of a label at p for which the pattern matches
MatchStarts(s, p, label, newline, labels, atEnd) ==
    IF Slice(s, p, p + Len(label) - 1) = label
    THEN {c \in CaptureStarts(s, p + Len(label), newline) :
              Ends(s, c, labels, atEnd) # {}}
    ELSE {}

\* re.search(pattern, s): [found, group]; the leftmost label position that
\* matches, with \s* greedy and (.*?) lazy
Search(s, label, newline, labels, atEnd) ==
    LET ps == {p \in 1..Len(s) :
                   MatchStarts(s, p, label, newline, labels, atEnd) # {}}
    IN IF ps = {} THEN [found |-> FALSE, group |-> ""]
       ELSE LET c == SetMax(MatchStarts(s, SetMin(ps), label, newline,
                                        labels, atEnd))
                q == SetMin(Ends(s, c, labels, atEnd))
            IN [found |-> TRUE, group |-> Slice(s, c, q - 1)]

\* `for pattern in patterns: match = re.search(...); if match: ...; break`
\* for two patterns; "" when neither matches
FirstMatch(m1, m2) ==
    IF m1.found THEN strip(m1.group)
    ELSE IF m2.found THEN strip(m2.group)
    ELSE ""

AbstractEnds == {"introduction", "background", "methods", "results",
                 "conclusion"}
IntroEnds == {"methods", "results", "conclusion", "discussion"}
ConclusionEnds == {"references", "acknowledgments"}

extract_sections(t) ==
    IF t = ""
    THEN [abstract |-> "", introduction |-> "", conclusion |-> "",
          full_text |-> t]
    ELSE LET text_lower == lower(t)
         IN [abstract |->
                 FirstMatch(
                     Search(text_lower, "abstract", TRUE, AbstractEnds, FALSE),
                     Search(text_lower, "abstract", FALSE, AbstractEnds, FALSE)),
             introduction |->
                 FirstMatch(
                     Search(text_lower, "introduction", TRUE, IntroEnds, FALSE),
                     Search(text_lower, "background", TRUE, IntroEnds, FALSE)),
             conclusion |->
                 FirstMatch(
                     Search(text_lower, "conclusion", TRUE, ConclusionEnds, TRUE),
                     Search(text_lower, "discussion", TRUE, ConclusionEnds, TRUE)),
             full_text |-> t]

(***************************************************************************)
(* TextProcessor.process_article                                           *)
(***************************************************************************)
\* dict.get(key, default)
Get(d, key, default) == IF key \in DOMAIN d THEN d[key] ELSE default

\* {**metadata, 'section': section}
ArticleMetadata(a, section) ==
    [title |-> Get(a, "title", ""),
     authors |-> Get(a, "authors", <<>>),
     journal |-> Get(a, "journal", ""),
     pub_date |-> Get(a, "pub_date", ""),
     source |-> Get(a, "source", ""),
     pmid |-> Get(a, "pmid", ""),
     doi |-> Get(a, "doi", ""),
     section |-> section]

\* `if sections[name]: all_chunks.extend(chunk_text(clean_text(...), ...))`
SectionChunks(a, sections, name, label, size, overlap) ==
    IF sections[name] # ""
    THEN chunk_text(clean_text(sections[name]), ArticleMetadata(a, label),
                    size, overlap)
    ELSE <<>>

\* variant: the title taken as the text of an article without an abstract
process_article_title(a, size, overlap) ==
    LET sections == extract_sections(Get(a, "abstract", Get(a, "title", "")))
    IN SectionChunks(a, sections, "full_text", "full", size, overlap)

process_article(a, size, overlap) ==
    LET sections == extract_sections(Get(a, "abstract", ""))
        all_chunks ==
            SectionChunks(a, sections, "abstract", "abstract", size, overlap)
            \o SectionChunks(a, sections, "introduction", "introduction",
                             size, overlap)
            \o SectionChunks(a, sections, "conclusion", "conclusion",
                             size, overlap)
    IN IF all_chunks = <<>>
       THEN SectionChunks(a, sections, "full_text", "full", size, overlap)
       ELSE all_chunks

(***************************************************************************)
(* Inputs.                                                                 *)
(***************************************************************************)
TextAlphabet == {"a", " ", "."}

RECURSIVE Strings(_, _)
Strings(alphabet, n) ==
    IF n = 0 THEN {""}
    ELSE LET shorter == Strings(alphabet, n - 1)
         IN shorter \cup {s \o c : s \in shorter, c \in alphabet}

Texts == Strings(TextAlphabet, MaxTextLen)

\* article texts: the texts above, and texts with section labels, markup,
\* capitals and digits
LabelledTexts ==
    {"abstract\nAa. aa.\n\nintroduction\naa. a\n\nconclusion\na.a",
     "Abstract aa.aa\n\nrest",
     "A.A. <b>aa</b> 1",
     "background\naa aa.\nmethods",
     "discussion\n\na. a",
     "aa. aa. aa. aa"}

Articles ==
    {[abstract |-> t] : t \in Texts}
    \cup {[abstract |-> t, title |-> "T1"] : t \in LabelledTexts}
    \cup {[title |-> "T1"]}

NoArticle == EmptyDict
NoResult == [query |-> "", answer |-> "", sources |-> <<>>, confidence |-> 0]
NoHeap == <<>>
NoSections == EmptyDict
NoRanked == [A |-> <<>>, B |-> <<>>, confidence |-> <<>>]
NoScan == [it_index |-> 0, began |-> 0, visited |-> <<>>,
           relevant_docs |-> <<>>]

(***************************************************************************)
(* TextProcessor as a state machine: a processor is constructed with its   *)
(* chunk_size and chunk_overlap and then receives a call.                  *)
(***************************************************************************)
InitProc ==
    /\ chunk_size \in 1..MaxChunkSize
    /\ chunk_overlap \in 0..(chunk_size - 1)
    /\ \/ pc = "call_chunk_text" /\ text \in Texts /\ article = NoArticle
       \/ pc = "call_process_article" /\ text = "" /\ article \in Articles
    /\ chunks = <<>>
    /\ documents = <<>>
    /\ question = ""
    /\ top_k = 0
    /\ result = NoResult
    /\ added = <<>>
    /\ loaded = 0
    /\ scan = NoScan
    /\ heap = NoHeap
    /\ ranked = NoRanked
    /\ cleaned = ""
    /\ extracted = NoSections
    /\ relevant = <<>>

\* processor.chunk_text(text)
ChunkText ==
    /\ pc = "call_chunk_text"
    /\ pc' = "chunk_text"
    /\ chunks' = chunk_text(text, EmptyDict, chunk_size, chunk_overlap)
    /\ UNCHANGED <<chunk_size, chunk_overlap, text, article, documents,
                   question, top_k, result, added, loaded, scan, heap, ranked,
                   cleaned, extracted, relevant>>

\* processor.process_article(article)
ProcessArticle ==
    /\ pc = "call_process_article"
    /\ pc' = "process_article"
    /\ chunks' = process_article(article, chunk_size, chunk_overlap)
    /\ UNCHANGED <<chunk_size, chunk_overlap, text, article, documents,
                   question, top_k, result, added, loaded, scan, heap, ranked,
                   cleaned, extracted, relevant>>

NextProc == ChunkText \/ ProcessArticle

SpecProc == InitProc /\ [][NextProc]_vars

(***************************************************************************)
(* SimpleRAGPipeline.                                                      *)
(* A float is the exact rational it stands for: a relevance_score is an    *)
(* integer number of 1/ScoreScale, a confidence an integer number of       *)
(* 1/ConfScale.                                                            *)
(***************************************************************************)
\* the stored chunks: dicts with 'text' and, for most, 'metadata'
DocPool ==
    {[text |-> ""],
     [text |-> "Tau tangles", metadata |-> [title |-> "T1"]],
     [text |-> "memory loss", metadata |-> [title |-> "T2", journal |-> "J"]],
     [text |-> "tauopathy ab", metadata |-> [journal |-> "J"]],
     [text |-> "ab cd", metadata |-> EmptyDict]}

\* s repeated n times
RECURSIVE Repeat(_, _)
Repeat(s, n) == IF n = 0 THEN "" ELSE s \o Repeat(s, n - 1)

\* passages longer than the 100 and the 200 characters query compares the
\* length of the top source with: 107 and 209 characters
LongPool ==
    {[text |-> Repeat("Neurodegeneration ", 5) \o "neurodegeneration",
      metadata |-> [title |-> "T2", journal |-> "J"]],
     [text |-> Repeat("acetylcholinesterase ", 9) \o "acetylcholinesterase",
      metadata |-> [journal |-> "J"]],
     [text |-> Repeat("acetylcholinesterase ", 9) \o "acetylcholinesterase"]}

\* a passage longer than the 300 characters get_relevant_documents
\* compares the length of a passage with: 314 characters
VeryLongDoc ==
    [text |-> Repeat("Acetylcholinesterase ", 14) \o "acetylcholinesterase",
     metadata |-> [title |-> "T3"]]

Questions == {"", "tau", "ab Tau", "What causes memory loss?"}

\* the lists of 1 or 2 chunks an add_documents call receives
ChunkLists == {<<d>> : d \in DocPool} \cup {<<d, e>> : d \in DocPool, e \in DocPool}

TopKs == (0 - 1)..MaxTopK

SeqToSet(q) == {q[i] : i \in 1..Len(q)}

\* set(s.lower().split())
Words(s) == SeqToSet(split(lower(s)))

RECURSIVE Gcd(_, _)
Gcd(a, b) == IF b = 0 THEN a ELSE Gcd(b, a % b)

RECURSIVE LcmUpTo(_)
LcmUpTo(n) ==
    IF n <= 1 THEN 1
    ELSE LET l == LcmUpTo(n - 1) IN (l \div Gcd(l, n)) * n

\* the largest len(question_words.union(text_words)) of the inputs
MaxUnion ==
    SetMax({Cardinality(Words(q) \cup Words(d.text)) :
                q \in Questions, d \in DocPool \cup LongPool \cup {VeryLongDoc}})

ScoreScale == 100 * LcmUpTo(MaxUnion)
ConfScale == 10 * ScoreScale * LcmUpTo(MaxDocs)

alzheimer_terms ==
    {"alzheimer", "disease", "amyloid", "tau", "tangles", "plaques",
     "cognitive", "memory", "neurodegeneration", "treatment", "therapy",
     "bace1", "gamma-secretase", "neuroinflammation", "biomarkers",
     "genetics", "lifestyle", "immunotherapy", "synaptic", "drug",
     "research", "study", "pathology", "progression", "mechanisms",
     "beta-secretase", "acetylcholinesterase", "microglia", "astrocytes",
     "blood-brain-barrier", "clinical-trials", "diagnosis", "prevention"}

\* overlap / total_words if total_words > 0 else 0
similarity_score(q, t) ==
    LET overlap == Cardinality(Words(q) \cap Words(t))
        total_words == Cardinality(Words(q) \cup Words(t))
    IN IF total_words > 0 THEN overlap * (ScoreScale \div total_words) ELSE 0

alzheimer_match(t) == Cardinality(alzheimer_terms \cap Words(t)) > 0

\* variant: `len(word) > 3`
question_keywords_longer(q) == {word \in Words(q) : Len(word) > 3}

question_keywords(q) == {word \in Words(q) : Len(word) > 2}

keyword_matches(q, t) ==
    Cardinality({word \in question_keywords(q) : word \in Words(t)})

\* variant: `if word in doc['text']`, the text as stored
phrase_matches_cased(q, t) ==
    Cardinality({word \in question_keywords(q) : Contains(t, word)})

phrase_matches(q, t) ==
    Cardinality({word \in question_keywords(q) : Contains(lower(t), word)})

\* variant: no alzheimer_boost
boosted_score_no_domain(q, t) ==
    similarity_score(q, t)
    + Min(keyword_matches(q, t) * (ScoreScale \div 5), ScoreScale \div 2)
    + Min(phrase_matches(q, t) * ((15 * ScoreScale) \div 100),
          (4 * ScoreScale) \div 10)

\* base_score + alzheimer_boost + keyword_boost + phrase_boost
boosted_score(q, t) ==
    similarity_score(q, t)
    + (IF alzheimer_match(t) THEN (3 * ScoreScale) \div 10 ELSE 0)
    + Min(keyword_matches(q, t) * (ScoreScale \div 5), ScoreScale \div 2)
    + Min(phrase_matches(q, t) * ((15 * ScoreScale) \div 100),
          (4 * ScoreScale) \div 10)

\* variant: the sum of the boosts without the cap at 1.0
final_score_uncapped(q, t) == boosted_score(q, t)

\* min(1.0, base_score + alzheimer_boost + keyword_boost + phrase_boost)
final_score(q, t) == Min(ScoreScale, boosted_score(q, t))

\* variant: `if final_score > 0.01 and alzheimer_match`
included_and(q, t) ==
    final_score(q, t) > ScoreScale \div 100 /\ alzheimer_match(t)

\* `if final_score > 0.01 or alzheimer_match or keyword_matches > 0`
included(q, t) ==
    \/ final_score(q, t) > ScoreScale \div 100
    \/ alzheimer_match(t)
    \/ keyword_matches(q, t) > 0

PreviewLen == 800
QuoteMinLen == 100
QuoteLen == 200

\* what one iteration of the loop over the documents computes for the
\* question q and the document text t
ScoreDoc(q, t) ==
    [similarity_score |-> similarity_score(q, t),
     alzheimer_match |-> alzheimer_match(t),
     keyword_matches |-> keyword_matches(q, t),
     phrase_matches |-> phrase_matches(q, t),
     final_score |-> final_score(q, t),
     included |-> included(q, t)]

PoolTexts == {d.text : d \in DocPool \cup LongPool \cup {VeryLongDoc}}

\* ScoreDoc tabulated for the questions and the document texts of the model
Scored == [q \in Questions |-> [t \in PoolTexts |-> ScoreDoc(q, t)]]

\* doc['text'][:800] + "..." if len(doc['text']) > 800 else doc['text']
Preview(t) == IF Len(t) > PreviewLen THEN Prefix(t, PreviewLen) \o "..." ELSE t

\* variant: `'chunk_id': i`, the 0-based index of enumerate
SourceZeroBased(q, doc, i) ==
    [chunk_id |-> i - 1,
     text |-> IF Len(doc.text) > PreviewLen
              THEN Prefix(doc.text, PreviewLen) \o "..." ELSE doc.text,
     metadata |-> Get(doc, "metadata", EmptyDict),
     relevance_score |-> Scored[q][doc.text].final_score]

\* the dict appended to relevant_docs for the document at index i - 1
Source(q, doc, i) ==
    [chunk_id |-> i,
     text |-> IF Len(doc.text) > PreviewLen
              THEN Prefix(doc.text, PreviewLen) \o "..." ELSE doc.text,
     metadata |-> Get(doc, "metadata", EmptyDict),
     relevance_score |-> Scored[q][doc.text].final_score]

\* the `for i, doc in enumerate(self.documents)` loop: relevant_docs
RECURSIVE Relevant(_, _, _)
Relevant(q, docs, i) ==
    IF i > Len(docs) THEN <<>>
    ELSE (IF Scored[q][docs[i].text].included
          THEN <<Source(q, docs[i], i)>> ELSE <<>>)
         \o Relevant(q, docs, i + 1)

\* variant: x put before the elements of the descending list that do not
\* exceed it, which reverses the elements of equal score
InsertBeforeTies(sorted, x) ==
    LET n == Cardinality({j \in 1..Len(sorted) :
                              sorted[j].relevance_score > x.relevance_score})
    IN SubSeq(sorted, 1, n) \o <<x>> \o SubSeq(sorted, n + 1, Len(sorted))

\* x put behind the elements of the descending list that are not below it
InsertStable(sorted, x) ==
    LET n == Cardinality({j \in 1..Len(sorted) :
                              sorted[j].relevance_score >= x.relevance_score})
    IN SubSeq(sorted, 1, n) \o <<x>> \o SubSeq(sorted, n + 1, Len(sorted))

\* relevant_docs.sort(key=lambda x: x['relevance_score'], reverse=True):
\* a stable sort, elements of equal score keep their order
RECURSIVE SortByScore(_)
SortByScore(rs) ==
    IF rs = <<>> THEN <<>>
    ELSE InsertStable(SortByScore(SubSeq(rs, 1, Len(rs) - 1)), rs[Len(rs)])

\* variant: relevant_docs[:top_k - 1]
UpToBelow(rs, k) ==
    IF k - 1 >= 0 THEN SubSeq(rs, 1, Min(k - 1, Len(rs)))
    ELSE SubSeq(rs, 1, Max(Len(rs) + k - 1, 0))

\* relevant_docs[:top_k]; a negative top_k counts from the end
UpTo(rs, k) ==
    IF k >= 0 THEN SubSeq(rs, 1, Min(k, Len(rs)))
    ELSE SubSeq(rs, 1, Max(Len(rs) + k, 0))

RECURSIVE SumScores(_)
SumScores(rs) ==
    IF rs = <<>> THEN 0 ELSE rs[1].relevance_score + SumScores(Tail(rs))

\* variant: the mean of the scores the passages fall short of 1.0 by
avg_score_missed(rs) ==
    (Len(rs) * ScoreScale - SumScores(rs)) * (LcmUpTo(MaxDocs) \div Len(rs))

\* sum(doc['relevance_score'] for doc in relevant_docs) / len(relevant_docs)
\* in units of 1 / (ScoreScale * LcmUpTo(MaxDocs))
avg_score(rs) == SumScores(rs) * (LcmUpTo(MaxDocs) \div Len(rs))

\* variant: `confidence = 0.0` when relevant_docs is empty
ConfidenceZeroBaseline(rs) ==
    IF rs # <<>>
    THEN Min(ConfScale, (4 * ConfScale) \div 10 + 6 * avg_score(rs))
    ELSE 0

\* min(1.0, 0.4 + avg_score * 0.6) for a non-empty rs, else 0.3
Confidence(rs) ==
    IF rs # <<>>
    THEN Min(ConfScale, (4 * ConfScale) \div 10 + 6 * avg_score(rs))
    ELSE (3 * ConfScale) \div 10

\* the `# Add some context from the source` step
Quote(source_text) ==
    IF Len(source_text) > QuoteMinLen
    THEN "\"" \o Prefix(source_text, QuoteLen) \o "...\"\n\n"
    ELSE ""

\* the answer when relevant_docs is empty
NoInformation(q) ==
    "No specific information found about '" \o q
    \o "' in the current dataset. "
    \o "Please try a different query or add more documents to the system."

\* variant: the answer for an empty relevant_docs does not name the query
AnswerNoQuery(q, rs) ==
    IF rs # <<>>
    THEN "Based on the available Alzheimer's research."
    ELSE "No specific information found in the current dataset."

\* the answer template
Answer(q, rs) ==
    IF rs # <<>>
    THEN LET top_source == rs[1]
             source_text == top_source.text
         IN "Based on the available Alzheimer's research, here's what I found about '"
            \o q \o "':\n\n"
            \o (IF "title" \in DOMAIN top_source.metadata
                THEN "Research from '" \o top_source.metadata.title
                     \o "' indicates:\n"
                ELSE "")
            \o Quote(source_text)
            \o "This information is based on current scientific literature. "
            \o "For medical advice, please consult healthcare professionals."
    ELSE NoInformation(q)

\* variant: the confidence of the sources the call returns
ConfidenceOfReturned(rs, k) == Confidence(UpTo(rs, k))

\* the confidence of relevant_docs, computed before the truncation to top_k
ConfidenceOf(rs, k) == Confidence(rs)

\* variant: relevant_docs cut to top_k before it is sorted
QueryResultOfCutFirst(q, rs, k) ==
    LET relevant_docs == SortByScore(UpTo(rs, k))
    IN [query |-> q,
        answer |-> Answer(q, relevant_docs),
        sources |-> relevant_docs,
        confidence |-> ConfidenceOf(relevant_docs, k)]

\* what query does with relevant_docs once the loop over the documents is
\* over: sort, answer, confidence, QueryResult
QueryResultOf(q, rs, k) ==
    LET relevant_docs == SortByScore(rs)
    IN [query |-> q,
        answer |-> Answer(q, relevant_docs),
        sources |-> UpTo(relevant_docs, k),
        confidence |-> ConfidenceOf(relevant_docs, k)]

\* variant: `chunk_id` is the place of the passage among the sorted
\* relevant_docs
query_ranked_ids(docs, q, k) ==
    LET rs == SortByScore(Relevant(q, docs, 1))
        relevant_docs == [i \in 1..Len(rs) |-> [rs[i] EXCEPT !.chunk_id = i]]
    IN [query |-> q,
        answer |-> Answer(q, relevant_docs),
        sources |-> UpTo(relevant_docs, k),
        confidence |-> ConfidenceOf(relevant_docs, k)]

\* SimpleRAGPipeline.query
query(docs, q, k) == QueryResultOf(q, Relevant(q, docs, 1), k)

DefaultChunkSize == 500
DefaultChunkOverlap == 50

\* SimpleRAGPipeline.__init__
Init ==
    /\ chunk_size = DefaultChunkSize
    /\ chunk_overlap = DefaultChunkOverlap
    /\ pc = "init"
    /\ text = ""
    /\ article = NoArticle
    /\ chunks = <<>>
    /\ documents = <<>>
    /\ question = ""
    /\ top_k = 0
    /\ result = NoResult
    /\ added = <<>>
    /\ loaded = 0
    /\ scan = NoScan
    /\ heap = NoHeap
    /\ ranked = NoRanked
    /\ cleaned = ""
    /\ extracted = NoSections
    /\ relevant = <<>>

\* variant: `self.documents = chunks`
ExtendReplace(docs, cs) == cs

\* self.documents.extend(chunks)
Extend(docs, cs) == docs \o cs

\* pipeline.add_documents(cs)
AddDocuments ==
    \E cs \in ChunkLists :
        /\ Len(documents) + Len(cs) <= MaxDocs
        /\ documents' = Extend(documents, cs)
        /\ added' = cs
        /\ pc' = "add_documents"
        /\ UNCHANGED <<chunk_size, chunk_overlap, text, article, chunks,
                       question, top_k, result, loaded, scan, heap, ranked,
                       cleaned, extracted, relevant>>

\* pipeline.query(q, top_k=k): the call returns, whatever top_k is
Query ==
    \E q \in Questions, k \in TopKs :
        /\ question' = q
        /\ top_k' = k
        /\ result' = query(documents, q, k)
        /\ added' = <<>>
        /\ relevant' = <<>>
        /\ pc' = "query"
        /\ UNCHANGED <<chunk_size, chunk_overlap, text, article, chunks,
                       documents, loaded, scan, heap, ranked, cleaned,
                       extracted>>

Next == AddDocuments \/ Query

Spec == Init /\ [][Next]_vars

(***************************************************************************)
(* Properties of the chunker (checked under SpecProc).                     *)
(***************************************************************************)
\* the sentences the splitter returns for the text given to chunk_text
Sentences == sent_tokenize(text)

ChunkTextDone == pc = "chunk_text"

\* the assignments of a first sentence to each of m chunks of n sentences:
\* chunk 1 starts at sentence 1 and the starts increase
Starts(m, n) ==
    {f \in [1..m -> 1..n] :
         /\ f[1] = 1
         /\ \A i \in 1..(m - 1) : f[i] < f[i + 1]}

\* the sentences of chunk i under f, joined as the buffer joins them
Body(f, i) ==
    JoinSpace(SubSeq(Sentences, f[i],
                     IF i < Len(chunks) THEN f[i + 1] - 1 ELSE Len(Sentences)))

\* every chunk is its sentences, behind an overlap prefix of at most
\* chunk_overlap characters and a separator for the chunks after the first
Covers(f) ==
    \A i \in 1..Len(chunks) :
        /\ EndsWith(chunks[i].text, Body(f, i))
        /\ Len(chunks[i].text) - Len(Body(f, i))
               <= (IF i = 1 \/ chunk_overlap = 0 THEN 0 ELSE chunk_overlap + 1)

\* C1: when every sentence of the text is at most chunk_size long, every
\* chunk chunk_text emits is at most chunk_size + chunk_overlap long.
C1_ChunkBound ==
    (ChunkTextDone
       /\ \A j \in 1..Len(Sentences) : Len(Sentences[j]) <= chunk_size)
    => \A i \in 1..Len(chunks) :
           Len(chunks[i].text) <= chunk_size + chunk_overlap

\* C2: the chunks, without the overlap prefix of the chunks after the
\* first, hold every sentence of the text exactly once, whole and in order:
\* the sentences split into consecutive runs, one run per chunk, and each
\* chunk ends with its run.
C2_Coverage ==
    ChunkTextDone =>
        IF Sentences = <<>> THEN chunks = <<>>
        ELSE /\ Len(chunks) >= 1
             /\ \E f \in Starts(Len(chunks), Len(Sentences)) : Covers(f)

\* C2 case: several chunks, an overlap, and a sentence longer than chunk_size
C2_Witness ==
    /\ ChunkTextDone
    /\ chunk_overlap > 0
    /\ Len(chunks) >= 2
    /\ \E j \in 1..Len(Sentences) : Len(Sentences[j]) > chunk_size

\* C3 as stated: with an overlap and more than one chunk, every chunk after
\* the first begins with the last chunk_overlap characters of the text of
\* the chunk before it, followed by the sentence that triggered the split.
C3_OverlapTail ==
    (ChunkTextDone /\ chunk_overlap > 0 /\ Len(chunks) > 1) =>
        \E f \in Starts(Len(chunks), Len(Sentences)) :
            /\ Covers(f)
            /\ \A i \in 2..Len(chunks) :
                   LET tail == LastChars(chunks[i - 1].text, chunk_overlap)
                   IN /\ StartsWith(chunks[i].text, tail)
                      /\ StartsWith(lstrip(From(chunks[i].text, Len(tail) + 1)),
                                    Sentences[f[i]])

\* C3 amended: with an overlap and more than one chunk, every chunk after
\* the first begins with the last chunk_overlap characters of the text of
\* the chunk before it with their leading whitespace removed, then one
\* space, then the sentence that triggered the split.
C3_OverlapTailStripped ==
    (ChunkTextDone /\ chunk_overlap > 0 /\ Len(chunks) > 1) =>
        \E f \in Starts(Len(chunks), Len(Sentences)) :
            /\ Covers(f)
            /\ \A i \in 2..Len(chunks) :
                   LET tail == LastChars(chunks[i - 1].text, chunk_overlap)
                   IN StartsWith(chunks[i].text,
                                 lstrip(tail) \o " " \o Sentences[f[i]])

\* C3 case: a chunk after the first whose overlap tail starts with a space
C3_Witness ==
    /\ ChunkTextDone
    /\ chunk_overlap > 0
    /\ Len(chunks) > 1
    /\ \E i \in 2..Len(chunks) :
           At(LastChars(chunks[i - 1].text, chunk_overlap), 1) = " "

\* the sentences of the document given to process_article
DocumentSentences == sent_tokenize(Get(article, "abstract", ""))

\* C4: every passage process_article makes from a document whose sentences
\* are each at most chunk_size long is at most chunk_size + chunk_overlap
\* long.
C4_IngestBound ==
    (pc = "process_article"
       /\ \A j \in 1..Len(DocumentSentences) :
              Len(DocumentSentences[j]) <= chunk_size)
    => \A i \in 1..Len(chunks) :
           Len(chunks[i].text) <= chunk_size + chunk_overlap

(***************************************************************************)
(* Properties of the pipeline (checked under Spec).                        *)
(***************************************************************************)
QueryDone == pc = "query"

\* what the loop computed for the stored passage with id i
ScoredAt(i) == Scored[question][documents[i].text]

\* the ids of the stored passages that pass the inclusion test
Candidates ==
    {i \in 1..Len(documents) :
         \/ 100 * ScoredAt(i).final_score > ScoreScale
         \/ ScoredAt(i).alzheimer_match
         \/ ScoredAt(i).keyword_matches > 0}

SourceIds == {result.sources[j].chunk_id : j \in 1..Len(result.sources)}

\* passage a ranks above passage b: a higher score, or the same score and
\* a lower id
RanksAbove(scoreA, idA, scoreB, idB) ==
    scoreA > scoreB \/ (scoreA = scoreB /\ idA < idB)

\* C5: every relevance_score query computes lies in [0, 1], for the
\* returned sources and for every stored passage, the empty passage under
\* the empty question included.
C5_ScoreBounds ==
    QueryDone =>
        /\ \A j \in 1..Len(result.sources) :
               /\ result.sources[j].relevance_score >= 0
               /\ result.sources[j].relevance_score <= ScoreScale
        /\ \A i \in 1..Len(documents) :
               /\ ScoredAt(i).final_score >= 0
               /\ ScoredAt(i).final_score <= ScoreScale

\* C5 case: the empty question against a store with an empty passage (the
\* union of the token sets is empty) and with a returned source
C5_Witness ==
    /\ QueryDone
    /\ question = ""
    /\ \E i \in 1..Len(documents) : documents[i].text = ""
    /\ result.sources # <<>>

\* C6: the sources are in descending relevance_score order, and sources of
\* equal relevance_score are in ascending chunk_id order.
C6_Sorted ==
    QueryDone =>
        \A i \in 1..Len(result.sources) :
            \A j \in (i + 1)..Len(result.sources) :
                RanksAbove(result.sources[i].relevance_score,
                           result.sources[i].chunk_id,
                           result.sources[j].relevance_score,
                           result.sources[j].chunk_id)

\* C6 case: sources with a tie and with a strict descent
C6_Witness ==
    /\ QueryDone
    /\ \E i, j \in 1..Len(result.sources) :
           /\ i < j
           /\ result.sources[i].relevance_score
                  = result.sources[j].relevance_score
    /\ \E i, j \in 1..Len(result.sources) :
           result.sources[i].relevance_score
               > result.sources[j].relevance_score

\* C7: a query call with top_k <= 0 fails with an invalid-argument error,
\* it never returns a QueryResult.
C7_NonPositiveTopKNeverReturns == ~(QueryDone /\ top_k <= 0)

\* min(1.0, 0.4 + 0.6 * sum / n), in units of 1/ConfScale
ConfidenceOfAverage(sum, n) ==
    Min(ConfScale,
        (4 * ConfScale) \div 10 + 6 * sum * (LcmUpTo(MaxDocs) \div n))

SourceScore(j) == result.sources[j].relevance_score
CandidateScore(i) == ScoredAt(i).final_score

\* the sum of the relevance_score of the sources at the indices J
RECURSIVE SumSources(_)
SumSources(J) ==
    IF J = {} THEN 0
    ELSE LET j == CHOOSE x \in J : TRUE
         IN SourceScore(j) + SumSources(J \ {j})

\* the sum of the scores of the stored passages with the ids S
RECURSIVE SumCandidates(_)
SumCandidates(S) ==
    IF S = {} THEN 0
    ELSE LET i == CHOOSE x \in S : TRUE
         IN CandidateScore(i) + SumCandidates(S \ {i})

C9_Inclusion ==
    (QueryDone /\ top_k >= 1) =>
        /\ SourceIds \subseteq Candidates
        /\ Len(result.sources) < top_k => Candidates \subseteq SourceIds

\* C9 case: a store with a passage that passes and one that fails the test
C9_Witness ==
    /\ QueryDone
    /\ top_k >= 1
    /\ Candidates # {}
    /\ \E i \in 1..Len(documents) : i \notin Candidates

\* C10: for top_k >= 1 there are min(top_k, number of candidates) sources,
\* and every source ranks above every candidate that is not a source.
C10_TopK ==
    (QueryDone /\ top_k >= 1) =>
        /\ Len(result.sources) = Min(top_k, Cardinality(Candidates))
        /\ Cardinality(SourceIds) = Len(result.sources)
        /\ \A j \in 1..Len(result.sources) :
               \A i \in Candidates \ SourceIds :
                   RanksAbove(result.sources[j].relevance_score,
                              result.sources[j].chunk_id,
                              CandidateScore(i), i)

\* C10 case: more candidates than top_k
C10_Witness ==
    /\ QueryDone
    /\ top_k >= 1
    /\ Cardinality(Candidates) > top_k

(***************************************************************************)
(* Ingest of one raw document into a pipeline that may hold passages:      *)
(* TextProcessor.process_article derives the chunks (data_processor.main), *)
(* then load_real_data passes them to add_documents one at a time.  A      *)
(* fault raised inside either call (MemoryError, ...) is not caught: it    *)
(* ends the ingest where it is.                                            *)
(***************************************************************************)
\* the stores the ingest starts from
PriorStores ==
    {<<>>, <<[text |-> "memory loss",
              metadata |-> [title |-> "T2", journal |-> "J"]]>>}

InitIngest ==
    /\ chunk_size \in 1..MaxChunkSize
    /\ chunk_overlap \in 0..(chunk_size - 1)
    /\ pc = "call_ingest"
    /\ text = ""
    /\ article \in Articles
    /\ chunks = <<>>
    /\ documents \in PriorStores
    /\ question = ""
    /\ top_k = 0
    /\ result = NoResult
    /\ added = <<>>
    /\ loaded = 0
    /\ scan = NoScan
    /\ heap = NoHeap
    /\ ranked = NoRanked
    /\ cleaned = ""
    /\ extracted = NoSections
    /\ relevant = <<>>

\* chunks = processor.process_article(article)
IngestProcess ==
    /\ pc = "call_ingest"
    /\ pc' = "ingest_loop"
    /\ chunks' = process_article(article, chunk_size, chunk_overlap)
    /\ UNCHANGED <<chunk_size, chunk_overlap, text, article, documents,
                   question, top_k, result, added, loaded, scan, heap, ranked,
                   cleaned, extracted, relevant>>

\* one iteration of `for chunk in chunks: pipeline.add_documents([chunk])`
IngestAdd ==
    /\ pc = "ingest_loop"
    /\ loaded < Len(chunks)
    /\ added' = <<chunks[loaded + 1]>>
    /\ documents' = Extend(documents, added')
    /\ loaded' = loaded + 1
    /\ UNCHANGED <<chunk_size, chunk_overlap, pc, text, article, chunks,
                   question, top_k, result, scan, heap, ranked, cleaned,
                   extracted, relevant>>

\* the loop ends: every chunk was passed to add_documents
IngestDone ==
    /\ pc = "ingest_loop"
    /\ loaded = Len(chunks)
    /\ pc' = "ingested"
    /\ UNCHANGED <<chunk_size, chunk_overlap, text, article, chunks,
                   documents, question, top_k, result, added, loaded, scan,
                   heap, ranked, cleaned, extracted, relevant>>

\* a fault raised inside process_article or inside an add_documents call:
\* nothing catches it and nothing is undone, the ingest ends
IngestFault ==
    /\ pc \in {"call_ingest", "ingest_loop"}
    /\ pc = "ingest_loop" => loaded < Len(chunks)
    /\ pc' = "ingest_failed"
    /\ UNCHANGED <<chunk_size, chunk_overlap, text, article, chunks,
                   documents, question, top_k, result, added, loaded, scan,
                   heap, ranked, cleaned, extracted, relevant>>

NextIngest == IngestProcess \/ IngestAdd \/ IngestDone \/ IngestFault

SpecIngest == InitIngest /\ [][NextIngest]_vars

\* C13: when the ingest of a document has completed or failed, the store
\* holds every chunk derived from the document or none of them.
C13_AllOrNothing ==
    pc \in {"ingested", "ingest_failed"} =>
        \E prior \in PriorStores :
            documents = prior \/ documents = prior \o chunks

(***************************************************************************)
(* add_documents and query on independent threads.  add_documents is one   *)
(* list.extend, which the interpreter runs as one step; query walks        *)
(* self.documents with a list iterator, which compares its index with the  *)
(* current length of the list before every item, and other threads run     *)
(* between two items.                                                      *)
(***************************************************************************)
InitConc ==
    /\ chunk_size = DefaultChunkSize
    /\ chunk_overlap = DefaultChunkOverlap
    /\ pc = "init"
    /\ text = ""
    /\ article = NoArticle
    /\ chunks = <<>>
    /\ documents = <<>>
    /\ question = ""
    /\ top_k = 0
    /\ result = NoResult
    /\ added = <<>>
    /\ loaded = 0
    /\ scan = NoScan
    /\ heap = NoHeap
    /\ ranked = NoRanked
    /\ cleaned = ""
    /\ extracted = NoSections
    /\ relevant = <<>>

\* the lists the adding thread passes to add_documents
ConcChunkLists ==
    LET pool == {d \in DocPool : d.text \in {"", "Tau tangles", "memory loss"}}
    IN {<<d>> : d \in pool} \cup {<<d, e>> : d \in pool, e \in pool}

\* variant: the iterator stops one item before the end of the list
ListIterNextShort(it_index, docs) ==
    IF it_index + 1 < Len(docs) THEN it_index + 1 ELSE 0

\* next() of the list iterator: the 1-based position of the item it
\* yields, 0 when it is exhausted
ListIterNext(it_index, docs) ==
    IF it_index < Len(docs) THEN it_index + 1 ELSE 0

\* the adding thread: pipeline.add_documents(cs)
ConcAdd ==
    \E cs \in ConcChunkLists :
        /\ Len(documents) + Len(cs) <= MaxDocs
        /\ documents' = Extend(documents, cs)
        /\ added' = cs
        /\ UNCHANGED <<chunk_size, chunk_overlap, pc, text, article, chunks,
                       question, top_k, result, loaded, scan, heap, ranked,
                       cleaned, extracted, relevant>>

\* the querying thread enters pipeline.query(q, top_k=k)
ConcQueryBegin ==
    \E q \in Questions, k \in TopKs :
        /\ pc \in {"init", "query"}
        /\ pc' = "scanning"
        /\ question' = q
        /\ top_k' = k
        /\ result' = NoResult
        /\ scan' = [it_index |-> 0, began |-> Len(documents),
                    visited |-> <<>>, relevant_docs |-> <<>>]
        /\ UNCHANGED <<chunk_size, chunk_overlap, text, article, chunks,
                       documents, added, loaded, heap, ranked, cleaned,
                       extracted, relevant>>

\* one iteration of the loop over the documents
ConcQueryStep ==
    LET i == ListIterNext(scan.it_index, documents) IN
    /\ pc = "scanning"
    /\ i # 0
    /\ scan' = [scan EXCEPT
                    !.it_index = @ + 1,
                    !.visited = Append(@, i),
                    !.relevant_docs =
                        IF Scored[question][documents[i].text].included
                        THEN Append(@, Source(question, documents[i], i))
                        ELSE @]
    /\ UNCHANGED <<chunk_size, chunk_overlap, pc, text, article, chunks,
                   documents, question, top_k, result, added, loaded, heap,
                   ranked, cleaned, extracted, relevant>>

\* the iterator is exhausted: the rest of query runs on its local list
ConcQueryEnd ==
    /\ pc = "scanning"
    /\ ListIterNext(scan.it_index, documents) = 0
    /\ pc' = "query"
    /\ result' = QueryResultOf(question, scan.relevant_docs, top_k)
    /\ UNCHANGED <<chunk_size, chunk_overlap, text, article, chunks,
                   documents, question, top_k, added, loaded, scan, heap,
                   ranked, cleaned, extracted, relevant>>

NextConc == ConcAdd \/ ConcQueryBegin \/ ConcQueryStep \/ ConcQueryEnd

SpecConc == InitConc /\ [][NextConc]_vars

\* C14: a query that runs while another thread adds documents visits the
\* store positions 1, 2, 3, ... in order, each once; when it returns it
\* has visited every passage that was stored when it began, its candidates
\* hold every such passage that passes the inclusion test, and each of its
\* sources carries the id, text and score of the passage at its store
\* position; until then the position it reads next is in the store.
C14_ConcurrentScan ==
    /\ \A i \in 1..Len(scan.visited) : scan.visited[i] = i
    /\ Len(scan.visited) <= Len(documents)
    /\ pc = "scanning" =>
           ListIterNext(scan.it_index, documents) \in 0..Len(documents)
    /\ pc = "query" =>
           /\ Len(scan.visited) >= scan.began
           /\ \A i \in 1..scan.began :
                  Scored[question][documents[i].text].included =>
                      \E j \in 1..Len(scan.relevant_docs) :
                          scan.relevant_docs[j].chunk_id = i
           /\ \A j \in 1..Len(result.sources) :
                  LET id == result.sources[j].chunk_id
                  IN /\ id \in 1..Len(documents)
                     /\ result.sources[j].text = Preview(documents[id].text)
                     /\ result.sources[j].relevance_score
                            = Scored[question][documents[id].text].final_score

\* C14 case: a query returned that was running while add_documents
\* extended the store, and it reports a passage added during its scan
C14_Witness ==
    /\ pc = "query"
    /\ scan.began > 0
    /\ Len(scan.visited) > scan.began
    /\ \E j \in 1..Len(result.sources) :
           result.sources[j].chunk_id > scan.began

(***************************************************************************)
(* The dict objects of a caller and of the pipeline.  add_documents puts   *)
(* the caller's chunk dicts themselves into self.documents; query builds   *)
(* a new dict for each source, whose 'text' is a str and whose 'metadata'  *)
(* is doc.get('metadata', {}), the metadata dict of the stored chunk.  A   *)
(* stored chunk is the address of a chunk dict, the metadata of a chunk    *)
(* dict and of a source is the address of a metadata dict.                 *)
(***************************************************************************)
\* the caller's chunk dicts and their metadata dicts
AliasHeap ==
    [a \in {"c1", "c2", "m1", "m2"} |->
        CASE a = "c1" -> [text |-> "Tau tangles", metadata |-> "m1"]
          [] a = "c2" -> [text |-> "memory loss", metadata |-> "m2"]
          [] a = "m1" -> [title |-> "T1"]
          [] a = "m2" -> [title |-> "T2", journal |-> "J"]]

ChunkAddrs == {"c1", "c2"}

\* what the caller writes into a dict it holds
MutatedText == "tauopathy ab"
MutatedTitle == "X"

\* the passages self.documents holds, addresses followed
StoreView(h, docs) ==
    [i \in 1..Len(docs) |->
        [text |-> h[docs[i]].text, metadata |-> h[h[docs[i]].metadata]]]

InitAlias ==
    /\ chunk_size = DefaultChunkSize
    /\ chunk_overlap = DefaultChunkOverlap
    /\ pc = "init"
    /\ text = ""
    /\ article = NoArticle
    /\ chunks = <<>>
    /\ documents = <<>>
    /\ question = ""
    /\ top_k = 0
    /\ result = NoResult
    /\ added = <<>>
    /\ loaded = 0
    /\ scan = NoScan
    /\ heap = AliasHeap
    /\ ranked = NoRanked
    /\ cleaned = ""
    /\ extracted = NoSections
    /\ relevant = <<>>

\* pipeline.add_documents([chunk]) with a chunk dict of the caller that
\* was not added or written to yet
AliasAdd ==
    \E c \in ChunkAddrs :
        /\ \A i \in 1..Len(documents) : documents[i] # c
        /\ heap[c] = AliasHeap[c]
        /\ heap[heap[c].metadata] = AliasHeap[heap[c].metadata]
        /\ documents' = Extend(documents, <<c>>)
        /\ added' = <<c>>
        /\ pc' = "add_documents"
        /\ UNCHANGED <<chunk_size, chunk_overlap, text, article, chunks,
                       question, top_k, result, loaded, scan, heap, ranked,
                       cleaned, extracted, relevant>>

\* pipeline.query(q, top_k=k): each source is a new dict that holds the
\* metadata dict of its stored chunk
AliasQuery ==
    \E q \in Questions, k \in 1..MaxTopK :
        LET r == query(StoreView(heap, documents), q, k) IN
        /\ question' = q
        /\ top_k' = k
        /\ result' =
               [r EXCEPT !.sources =
                   [j \in 1..Len(r.sources) |->
                       [r.sources[j] EXCEPT !.metadata =
                           heap[documents[r.sources[j].chunk_id]].metadata]]]
        /\ added' = <<>>
        /\ pc' = "query"
        /\ UNCHANGED <<chunk_size, chunk_overlap, text, article, chunks,
                       documents, loaded, scan, heap, ranked, cleaned,
                       extracted, relevant>>

\* the caller: result.sources[j]['text'] = ...
MutateSourceText ==
    \E j \in 1..Len(result.sources) :
        /\ result.sources[j].text # MutatedText
        /\ result' = [result EXCEPT !.sources[j].text = MutatedText]
        /\ pc' = "mutate"
        /\ UNCHANGED <<chunk_size, chunk_overlap, text, article, chunks,
                       documents, question, top_k, added, loaded, scan, heap,
                       ranked, cleaned, extracted, relevant>>

\* the caller: result.sources[j]['metadata']['title'] = ...
MutateSourceMetadata ==
    \E j \in 1..Len(result.sources) :
        LET m == result.sources[j].metadata IN
        /\ heap[m].title # MutatedTitle
        /\ heap' = [heap EXCEPT ![m].title = MutatedTitle]
        /\ pc' = "mutate"
        /\ UNCHANGED <<chunk_size, chunk_overlap, text, article, chunks,
                       documents, question, top_k, result, added, loaded,
                       scan, ranked, cleaned, extracted, relevant>>

\* the caller: chunk['text'] = ... on a chunk dict it passed to add_documents
MutateChunk ==
    \E i \in 1..Len(documents) :
        LET c == documents[i] IN
        /\ heap[c].text # MutatedText
        /\ heap' = [heap EXCEPT ![c].text = MutatedText]
        /\ pc' = "mutate"
        /\ UNCHANGED <<chunk_size, chunk_overlap, text, article, chunks,
                       documents, question, top_k, result, added, loaded,
                       scan, ranked, cleaned, extracted, relevant>>

NextAlias ==
    \/ AliasAdd
    \/ AliasQuery
    \/ MutateSourceText
    \/ MutateSourceMetadata
    \/ MutateChunk

SpecAlias == InitAlias /\ [][NextAlias]_vars

\* C15: whatever the caller writes into the sources of a QueryResult or
\* into a chunk dict it passed to add_documents, the store holds every
\* passage with the text and the metadata it was added with.
C15_StoreOwnsPassages ==
    StoreView(heap, documents) = StoreView(AliasHeap, documents)

(***************************************************************************)
(* The confidence computation of query applied to two relevant_docs lists  *)
(* of the same length, each sorted by descending relevance_score.          *)
(***************************************************************************)
\* relevance scores, in units of 1 / ScoreScale
ScoreLevels ==
    {0, ScoreScale \div 100, (3 * ScoreScale) \div 10, ScoreScale \div 2,
     ScoreScale}

\* the descending lists of n scores
RECURSIVE RankedScores(_)
RankedScores(n) ==
    IF n = 0 THEN {<<>>}
    ELSE {s \in {Append(rs, x) : rs \in RankedScores(n - 1),
                                 x \in ScoreLevels} :
             Len(s) = 1 \/ s[Len(s)] <= s[Len(s) - 1]}

\* relevant_docs with the given scores
AsRelevantDocs(scores) ==
    [j \in 1..Len(scores) |-> [chunk_id |-> j, relevance_score |-> scores[j]]]

InitConf ==
    /\ chunk_size = DefaultChunkSize
    /\ chunk_overlap = DefaultChunkOverlap
    /\ pc = "call_confidence"
    /\ text = ""
    /\ article = NoArticle
    /\ chunks = <<>>
    /\ documents = <<>>
    /\ question = ""
    /\ top_k = 0
    /\ result = NoResult
    /\ added = <<>>
    /\ loaded = 0
    /\ scan = NoScan
    /\ heap = NoHeap
    /\ \E n \in 1..MaxDocs :
           \E a \in RankedScores(n), b \in RankedScores(n) :
               ranked = [A |-> AsRelevantDocs(a), B |-> AsRelevantDocs(b),
                         confidence |-> <<>>]
    /\ cleaned = ""
    /\ extracted = NoSections
    /\ relevant = <<>>

\* the `# Calculate confidence` step of query on each list
ComputeConfidence ==
    /\ pc = "call_confidence"
    /\ pc' = "confidence"
    /\ ranked' = [ranked EXCEPT
                      !.confidence = <<Confidence(ranked.A),
                                       Confidence(ranked.B)>>]
    /\ UNCHANGED <<chunk_size, chunk_overlap, text, article, chunks,
                   documents, question, top_k, result, added, loaded, scan,
                   heap, cleaned, extracted, relevant>>

NextConf == ComputeConfidence

SpecConf == InitConf /\ [][NextConf]_vars

\* every score of A is at least the score of B at the same rank
PointwiseAtLeast(A, B) ==
    /\ Len(A) = Len(B)
    /\ \A j \in 1..Len(A) : A[j].relevance_score >= B[j].relevance_score

\* C19: for two non-empty ranked lists A and B of the same length, each
\* score of A at least the score of B at the same rank, the confidence
\* computed from A is at least the confidence computed from B.
C19_MonotoneConfidence ==
    pc = "confidence" /\ ranked.A # <<>>
        /\ PointwiseAtLeast(ranked.A, ranked.B) =>
            ranked.confidence[1] >= ranked.confidence[2]

\* C19 case: A is above B at one rank and equal at the others, and the
\* confidence of A is above the confidence of B
C19_Witness ==
    /\ pc = "confidence"
    /\ Len(ranked.A) > 1
    /\ PointwiseAtLeast(ranked.A, ranked.B)
    /\ Cardinality({j \in 1..Len(ranked.A) :
            ranked.A[j].relevance_score > ranked.B[j].relevance_score}) = 1
    /\ ranked.confidence[1] > ranked.confidence[2]

(***************************************************************************)
(* Queries on a pipeline that holds passages of more than 100 and more     *)
(* than 200 characters, with and without a title, next to short ones.      *)
(***************************************************************************)
\* the stores the queries run on: one or two passages
LongStores ==
    LET pool == LongPool \cup {d \in DocPool : d.text \in {"Tau tangles", "ab cd"}}
    IN {<<d>> : d \in pool} \cup {<<d, e>> : d \in pool, e \in pool}

InitAnswer ==
    /\ chunk_size = DefaultChunkSize
    /\ chunk_overlap = DefaultChunkOverlap
    /\ pc = "add_documents"
    /\ text = ""
    /\ article = NoArticle
    /\ chunks = <<>>
    /\ documents \in LongStores
    /\ question = ""
    /\ top_k = 0
    /\ result = NoResult
    /\ added = documents
    /\ loaded = 0
    /\ scan = NoScan
    /\ heap = NoHeap
    /\ ranked = NoRanked
    /\ cleaned = ""
    /\ extracted = NoSections
    /\ relevant = <<>>

NextAnswer == Query

SpecAnswer == InitAnswer /\ [][NextAnswer]_vars

(***************************************************************************)
(* clean_text applied to a text and then to its own result.                *)
(***************************************************************************)
MaxCleanLen == 4

CleanAlphabet == {"a", "A", " ", "<", ">", "@"}

\* raw texts: every string over the alphabet, and texts with a URL, an
\* e-mail address, markup, digits and whitespace of several kinds
RawTexts ==
    Strings(CleanAlphabet, MaxCleanLen)
    \cup {"see http://a.b/c?d=1 now", "https://A.b", "http://", "ht<b>tp://a b",
          "mail a@b.c x", "a@<b>b c", "<a@b>@c", "<b>Aa</b> 1", "<<a>> b",
          "A  a\n\tb ", "a1b2 - c.", "x<y and y>z", "@ a @a a@"}

InitClean ==
    /\ chunk_size = DefaultChunkSize
    /\ chunk_overlap = DefaultChunkOverlap
    /\ pc = "call_clean_text"
    /\ text \in RawTexts
    /\ article = NoArticle
    /\ chunks = <<>>
    /\ documents = <<>>
    /\ question = ""
    /\ top_k = 0
    /\ result = NoResult
    /\ added = <<>>
    /\ loaded = 0
    /\ scan = NoScan
    /\ heap = NoHeap
    /\ ranked = NoRanked
    /\ cleaned = ""
    /\ extracted = NoSections
    /\ relevant = <<>>

\* cleaned = processor.clean_text(text)
CleanText ==
    /\ pc = "call_clean_text"
    /\ pc' = "clean_text"
    /\ cleaned' = clean_text(text)
    /\ UNCHANGED <<chunk_size, chunk_overlap, text, article, chunks,
                   documents, question, top_k, result, added, loaded, scan,
                   heap, ranked, extracted, relevant>>

\* cleaned = processor.clean_text(cleaned)
CleanTextAgain ==
    /\ pc = "clean_text"
    /\ pc' = "clean_text_again"
    /\ text' = cleaned
    /\ cleaned' = clean_text(cleaned)
    /\ UNCHANGED <<chunk_size, chunk_overlap, article, chunks, documents,
                   question, top_k, result, added, loaded, scan, heap, ranked,
                   extracted, relevant>>

NextClean == CleanText \/ CleanTextAgain

SpecClean == InitClean /\ [][NextClean]_vars

\* C22: clean_text is idempotent: applied to its own result it returns it
\* unchanged.
C22_Idempotent == pc = "clean_text_again" => cleaned = text

\* C22 case: clean_text applied to a result of several words, which it
\* returns as it is
C22_Witness ==
    /\ pc = "clean_text_again"
    /\ Contains(text, " ")
    /\ cleaned = text

(***************************************************************************)
(* The stages of the ingest, each called on its own with a text that may   *)
(* be empty: clean_text, extract_sections, chunk_text, and process_article *)
(* with an article whose abstract may be empty or missing.                 *)
(***************************************************************************)
StageTexts ==
    Strings(TextAlphabet, 3)
    \cup {"abstract\naa. a\n\nconclusion\na", "\n", " \t "}

StageArticles ==
    {EmptyDict, [title |-> "T1"], [title |-> "T1", journal |-> "J"]}
    \cup {[abstract |-> t] : t \in StageTexts}
    \cup {[abstract |-> t, title |-> "T1"] : t \in StageTexts}

InitStages ==
    /\ chunk_size \in 1..MaxChunkSize
    /\ chunk_overlap \in 0..(chunk_size - 1)
    /\ \/ /\ pc \in {"call_clean_text", "call_extract_sections",
                     "call_chunk_text"}
          /\ text \in StageTexts
          /\ article = NoArticle
       \/ /\ pc = "call_process_article"
          /\ text = ""
          /\ article \in StageArticles
    /\ chunks = <<>>
    /\ documents = <<>>
    /\ question = ""
    /\ top_k = 0
    /\ result = NoResult
    /\ added = <<>>
    /\ loaded = 0
    /\ scan = NoScan
    /\ heap = NoHeap
    /\ ranked = NoRanked
    /\ cleaned = ""
    /\ extracted = NoSections
    /\ relevant = <<>>

\* sections = processor.extract_sections(text)
ExtractSections ==
    /\ pc = "call_extract_sections"
    /\ pc' = "extract_sections"
    /\ extracted' = extract_sections(text)
    /\ UNCHANGED <<chunk_size, chunk_overlap, text, article, chunks,
                   documents, question, top_k, result, added, loaded, scan,
                   heap, ranked, cleaned, relevant>>

NextStages == CleanText \/ ExtractSections \/ ChunkText \/ ProcessArticle

SpecStages == InitStages /\ [][NextStages]_vars

\* C23: an empty text gives an empty result at every stage: clean_text
\* returns "", extract_sections returns an empty abstract, introduction
\* and conclusion, chunk_text returns no chunk, and process_article returns
\* no chunk for an article whose abstract is empty or missing.
C23_EmptyInEmptyOut ==
    /\ pc = "clean_text" /\ text = "" => cleaned = ""
    /\ pc = "extract_sections" /\ text = "" =>
           /\ extracted.abstract = ""
           /\ extracted.introduction = ""
           /\ extracted.conclusion = ""
    /\ pc = "chunk_text" /\ text = "" => chunks = <<>>
    /\ pc = "process_article" /\ Get(article, "abstract", "") = "" =>
           chunks = <<>>

\* C23 case: process_article returned for an article that has a title and
\* no abstract
C23_Witness ==
    /\ pc = "process_article"
    /\ "title" \in DOMAIN article
    /\ "abstract" \notin DOMAIN article
    /\ chunks = <<>>

(***************************************************************************)
(* SimpleRAGPipeline.get_relevant_documents, next to query, on a pipeline   *)
(* that may hold a passage of more than 300 characters.                    *)
(***************************************************************************)
RetrieveTextLen == 300
RetrieveScore == (8 * ScoreScale) \div 10

\* the queries get_relevant_documents is called with: those of query, one
\* whose fourth token is the only one a passage holds, one whose token is
\* within the long passage
RetrieveQueries == Questions \cup {"x y z tau", "Esterase"}

RetrieveTexts == {d.text : d \in DocPool} \cup {VeryLongDoc.text}

\* query_lower.split()[:3]
FirstTokens(q) == LET ws == split(lower(q)) IN SubSeq(ws, 1, Min(3, Len(ws)))

\* any(word in text_lower for word in query_lower.split()[:3])
any_word_in_text(q, t) ==
    \E i \in 1..Len(FirstTokens(q)) : Contains(lower(t), FirstTokens(q)[i])

\* any_word_in_text, computed once for every query and passage text
WordInText ==
    [q \in RetrieveQueries |-> [t \in RetrieveTexts |-> any_word_in_text(q, t)]]

\* the dict get_relevant_documents appends for the passage at index i - 1
RelevantEntry(doc, i) ==
    [rank |-> i,
     text |-> IF Len(doc.text) > RetrieveTextLen
              THEN Prefix(doc.text, RetrieveTextLen) \o "..."
              ELSE doc.text,
     metadata |-> Get(doc, "metadata", EmptyDict),
     score |-> RetrieveScore]

\* the loop of get_relevant_documents over self.documents, from index i - 1
RECURSIVE RelevantDocs(_, _, _)
RelevantDocs(q, docs, i) ==
    IF i > Len(docs) THEN <<>>
    ELSE (IF WordInText[q][docs[i].text]
          THEN <<RelevantEntry(docs[i], i)>>
          ELSE <<>>) \o RelevantDocs(q, docs, i + 1)

\* SimpleRAGPipeline.get_relevant_documents
get_relevant_documents(docs, q, k) == UpTo(RelevantDocs(q, docs, 1), k)

\* the stores the calls run on: up to MaxDocs passages, short and long,
\* with and without a match, in every order
RetrievePool ==
    {VeryLongDoc} \cup
    {d \in DocPool : d.text \in {"Tau tangles", "tauopathy ab", "memory loss"}}

RECURSIVE StoresOf(_, _)
StoresOf(pool, n) ==
    IF n = 0 THEN {<<>>}
    ELSE LET shorter == StoresOf(pool, n - 1)
         IN shorter \cup {Append(ds, d) : ds \in shorter, d \in pool}

RetrieveStores == StoresOf(RetrievePool, MaxDocs)

\* a pipeline after its add_documents calls
InitRetrieve ==
    /\ chunk_size = DefaultChunkSize
    /\ chunk_overlap = DefaultChunkOverlap
    /\ pc = "add_documents"
    /\ text = ""
    /\ article = NoArticle
    /\ chunks = <<>>
    /\ documents \in RetrieveStores
    /\ question = ""
    /\ top_k = 0
    /\ result = NoResult
    /\ added = <<>>
    /\ loaded = 0
    /\ scan = NoScan
    /\ heap = NoHeap
    /\ ranked = NoRanked
    /\ cleaned = ""
    /\ extracted = NoSections
    /\ relevant = <<>>

\* variant: the matching passages are popped off self.documents
GetRelevantDocumentsPopping ==
    \E q \in RetrieveQueries, k \in TopKs :
        /\ question' = q
        /\ top_k' = k
        /\ relevant' = get_relevant_documents(documents, q, k)
        /\ documents' = SelectSeq(documents, LAMBDA d : ~WordInText[q][d.text])
        /\ result' = NoResult
        /\ added' = <<>>
        /\ pc' = "get_relevant_documents"
        /\ UNCHANGED <<chunk_size, chunk_overlap, text, article, chunks,
                       loaded, scan, heap, ranked, cleaned, extracted>>

\* pipeline.get_relevant_documents(q, k=k)
GetRelevantDocuments ==
    \E q \in RetrieveQueries, k \in TopKs :
        /\ question' = q
        /\ top_k' = k
        /\ relevant' = get_relevant_documents(documents, q, k)
        /\ result' = NoResult
        /\ added' = <<>>
        /\ pc' = "get_relevant_documents"
        /\ UNCHANGED <<chunk_size, chunk_overlap, text, article, chunks,
                       documents, loaded, scan, heap, ranked, cleaned,
                       extracted>>

NextRetrieve == Query \/ GetRelevantDocuments

SpecRetrieve == InitRetrieve /\ [][NextRetrieve]_vars

(***************************************************************************)
(* Properties of the document store (checked under Spec).                  *)
(***************************************************************************)
\* the passages stored before a step are, in the same positions, the first
\* passages stored after it
StoreKept ==
    /\ Len(documents') >= Len(documents)
    /\ \A i \in 1..Len(documents) : documents'[i] = documents[i]

\* C11: the i-th passage ever added has id i: no step moves a stored
\* passage to another position, and every source a query reports has a
\* chunk_id in 1..count, the text of the passage stored at that position,
\* and a chunk_id no other source of the result has.
C11_StableIds ==
    [][/\ StoreKept
       /\ pc' = "query" =>
              \A j \in 1..Len(result'.sources) :
                  LET id == result'.sources[j].chunk_id
                  IN /\ id \in 1..Len(documents')
                     /\ result'.sources[j].text = Preview(documents'[id].text)
                     /\ result'.sources[j].relevance_score
                            = Scored[question'][documents'[id].text].final_score
                     /\ \A l \in 1..Len(result'.sources) :
                            result'.sources[l].chunk_id = id => l = j]_vars

\* C11 case: a query reports the passage with id 1 of a store that later
\* add_documents calls extended
C11_Witness ==
    /\ QueryDone
    /\ Len(documents) = MaxDocs
    /\ documents[1] # documents[MaxDocs]
    /\ \E j \in 1..Len(result.sources) : result.sources[j].chunk_id = 1
    /\ \E j \in 1..Len(result.sources) : result.sources[j].chunk_id = MaxDocs

\* C12: the store is append-only: no step shortens it or changes a stored
\* passage, and add_documents(chunks) leaves the store as the passages
\* stored before followed by chunks, in order.
C12_AppendOnly ==
    [][/\ StoreKept
       /\ Len(documents) > 0 => Len(documents') > 0
       /\ pc' = "add_documents" =>
              /\ Len(documents') = Len(documents) + Len(added')
              /\ \A j \in 1..Len(added') :
                     documents'[Len(documents) + j] = added'[j]
       /\ pc' = "query" => documents' = documents]_vars

\* C12 case: add_documents of two chunks on a store that is not empty
C12_Witness ==
    /\ pc = "add_documents"
    /\ Len(added) = 2
    /\ Len(documents) > Len(added)

\* C17: a query on a store where no passage passes the inclusion test, the
\* empty store included, returns no source, the confidence 0.3 and the
\* no-information answer with the question in it.
C17_NoInformation ==
    QueryDone /\ Candidates = {} =>
        /\ result.sources = <<>>
        /\ 10 * result.confidence = 3 * ConfScale
        /\ result.answer =
               "No specific information found about '" \o question
               \o "' in the current dataset. Please try a different query"
               \o " or add more documents to the system."
        /\ result.query = question

\* C17 case: a query on a store that holds passages, none of which passes
\* the inclusion test, asked for at least one source
C17_Witness ==
    /\ QueryDone
    /\ Len(documents) > 1
    /\ question # ""
    /\ top_k >= 1
    /\ Candidates = {}
    /\ result.sources = <<>>

\* C18: the confidence of every QueryResult lies in [0.3, 1.0].
C18_ConfidenceBounds ==
    QueryDone =>
        /\ 10 * result.confidence >= 3 * ConfScale
        /\ result.confidence <= ConfScale

\* C18 case: a query whose candidates all score 1.0, the confidence is 1.0
C18_Witness ==
    /\ QueryDone
    /\ Candidates # {}
    /\ result.confidence = ConfScale

\* the texts of the model with a domain-vocabulary term among their
\* whitespace-split lowercase tokens
DomainTexts == {t \in PoolTexts : \E term \in alzheimer_terms : term \in Words(t)}

\* the tokens the question q and the text t share
SharedTokens == [q \in Questions |-> [t \in PoolTexts |-> Words(q) \cap Words(t)]]

\* C20: for every query, a stored passage with a domain-vocabulary term has
\* a relevance_score of at least 0.3 and is a candidate: when top_k >= 1 it
\* is among the sources, unless top_k sources are returned that all rank
\* above it.
C20_DomainPassages ==
    QueryDone =>
        \A i \in 1..Len(documents) :
            documents[i].text \in DomainTexts =>
                /\ 10 * ScoredAt(i).final_score >= 3 * ScoreScale
                /\ top_k >= 1 =>
                       \/ \E j \in 1..Len(result.sources) :
                              /\ result.sources[j].chunk_id = i
                              /\ 10 * result.sources[j].relevance_score
                                     >= 3 * ScoreScale
                       \/ /\ Len(result.sources) = top_k
                          /\ \A j \in 1..top_k :
                                 RanksAbove(result.sources[j].relevance_score,
                                            result.sources[j].chunk_id,
                                            ScoredAt(i).final_score, i)

\* C20 case: a passage with a domain-vocabulary term that shares no token
\* with the question is a source, with the score 0.3
C20_Witness ==
    /\ QueryDone
    /\ question # ""
    /\ \E j \in 1..Len(result.sources) :
           LET t == documents[result.sources[j].chunk_id].text
           IN /\ t \in DomainTexts
              /\ SharedTokens[question][t] = {}
              /\ 10 * result.sources[j].relevance_score = 3 * ScoreScale

(***************************************************************************)
(* Properties of the answer (checked under SpecAnswer).                    *)
(***************************************************************************)
\* the id of the top-ranked passage: the candidate that ranks above every
\* other candidate
TopCandidate ==
    CHOOSE i \in Candidates :
        \A j \in Candidates \ {i} :
            RanksAbove(ScoredAt(i).final_score, i, ScoredAt(j).final_score, j)

Disclaimer ==
    "This information is based on current scientific literature. "
    \o "For medical advice, please consult healthcare professionals."

\* the answer names the question, cites the title of the top-ranked
\* passage when its metadata has one, and ends with the disclaimer
NamesCitesDisclaims ==
    LET top == documents[TopCandidate]
        metadata == Get(top, "metadata", EmptyDict)
    IN /\ Contains(result.answer, "about '" \o question \o "'")
       /\ "title" \in DOMAIN metadata =>
              Contains(result.answer,
                       "Research from '" \o metadata.title \o "' indicates")
       /\ EndsWith(result.answer, Disclaimer)

\* C21: for every query with a non-empty ranking, the answer names the
\* question, cites the title of the top-ranked passage when it has one,
\* contains the first min(200, len(text)) characters of the top-ranked
\* passage's text in quotation marks, and ends with the disclaimer.
C21_AnswerQuotesTop ==
    QueryDone /\ Candidates # {} =>
        /\ NamesCitesDisclaims
        /\ Contains(result.answer,
                    "\"" \o Prefix(documents[TopCandidate].text, 200))

(***************************************************************************)
(* Properties of the stored metadata (checked under Spec).                 *)
(***************************************************************************)
\* the keys process_article gives the metadata of a chunk
MetadataFields ==
    {"title", "authors", "journal", "pub_date", "source", "pmid", "doi",
     "section"}

\* C24: the metadata of every stored passage and of every source a query
\* returns has every metadata field: title, authors, journal, pub_date,
\* source, pmid, doi and section.
C24_MetadataComplete ==
    /\ \A i \in 1..Len(documents) :
           MetadataFields \subseteq DOMAIN Get(documents[i], "metadata", EmptyDict)
    /\ \A j \in 1..Len(result.sources) :
           MetadataFields \subseteq DOMAIN result.sources[j].metadata

(***************************************************************************)
(* Properties of the score (checked under Spec).                           *)
(***************************************************************************)
\* the score of a passage text t for a question q as the sum of a Jaccard
\* term and three boosts, in units of 1 / ScoreScale
SumOfBoosts(q, t) ==
    LET query_tokens == Words(q)
        passage_tokens == Words(t)
        union == query_tokens \cup passage_tokens
        jaccard == IF union = {} THEN 0
                   ELSE (Cardinality(query_tokens \cap passage_tokens)
                         * ScoreScale) \div Cardinality(union)
        domain_boost == IF passage_tokens \cap alzheimer_terms # {}
                        THEN (3 * ScoreScale) \div 10 ELSE 0
        long_tokens == {w \in query_tokens : Len(w) >= 3}
        as_token == Cardinality(long_tokens \cap passage_tokens)
        as_substring ==
            Cardinality({w \in long_tokens : Contains(lower(t), w)})
        keyword_boost == Min((2 * as_token * ScoreScale) \div 10,
                             (5 * ScoreScale) \div 10)
        phrase_boost == Min((15 * as_substring * ScoreScale) \div 100,
                            (4 * ScoreScale) \div 10)
    IN Min(ScoreScale, jaccard + domain_boost + keyword_boost + phrase_boost)

ExpectedScore == [q \in Questions |-> [t \in PoolTexts |-> SumOfBoosts(q, t)]]

\* C25: the relevance_score of every passage, as computed for the stored
\* passages and as reported in the sources, is
\* min(1.0, jaccard + domain_boost + keyword_boost + phrase_boost).
C25_ScoreFormula ==
    QueryDone =>
        /\ \A i \in 1..Len(documents) :
               ScoredAt(i).final_score
                   = ExpectedScore[question][documents[i].text]
        /\ \A j \in 1..Len(result.sources) :
               result.sources[j].relevance_score
                   = ExpectedScore[question]
                                  [documents[result.sources[j].chunk_id].text]

\* C25 case: a source whose score has a Jaccard term and all three boosts
\* and stays below the cap
C25_Witness ==
    /\ QueryDone
    /\ \E j \in 1..Len(result.sources) :
           LET scored == ScoredAt(result.sources[j].chunk_id)
           IN /\ scored.similarity_score > 0
              /\ scored.keyword_matches > 0
              /\ scored.phrase_matches > 0
              /\ scored.alzheimer_match
              /\ result.sources[j].relevance_score < ScoreScale

\* C26: keyword_matches <= phrase_matches for every question and passage,
\* a passage passes the inclusion test exactly when its final score is
\* above 0.01, and every returned source has a relevance_score above 0.01.
C26_InclusionIsScore ==
    QueryDone =>
        /\ \A i \in 1..Len(documents) :
               /\ ScoredAt(i).keyword_matches <= ScoredAt(i).phrase_matches
               /\ i \in Candidates <=> 100 * ScoredAt(i).final_score > ScoreScale
               /\ ScoredAt(i).included <=> 100 * ScoredAt(i).final_score > ScoreScale
        /\ \A j \in 1..Len(result.sources) :
               100 * result.sources[j].relevance_score > ScoreScale

\* C26 case: sources of one result, one with a question token that is a
\* passage token, one with a question token that is only a substring of
\* the passage text
C26_Witness ==
    /\ QueryDone
    /\ \E j \in 1..Len(result.sources) :
           ScoredAt(result.sources[j].chunk_id).keyword_matches > 0
    /\ \E j \in 1..Len(result.sources) :
           LET scored == ScoredAt(result.sources[j].chunk_id)
           IN /\ scored.keyword_matches = 0
              /\ scored.phrase_matches > 0
              /\ ~scored.alzheimer_match

(***************************************************************************)
(* Properties of successive calls (checked under Spec).                    *)
(***************************************************************************)
\* the list a is the beginning of the list b
IsPrefix(a, b) == Len(a) <= Len(b) /\ a = SubSeq(b, 1, Len(a))

\* C27: when a query with top_k = k1 is followed, on the same store and
\* with the same question, by a query with top_k = k2 and 1 <= k1 <= k2,
\* the sources of the first are the beginning of the sources of the
\* second, and the answer and the confidence are the same.
C27_TopKPrefix ==
    [][(/\ pc = "query" /\ pc' = "query"
        /\ question' = question
        /\ 1 <= top_k /\ top_k <= top_k')
       => /\ IsPrefix(result.sources, result'.sources)
          /\ result'.answer = result.answer
          /\ result'.confidence = result.confidence]_vars

\* C27 case: a query for two sources on a store with more candidates, two
\* of which do not stand in the store in the order of their rank
C27_Witness ==
    /\ QueryDone
    /\ top_k = 2
    /\ Cardinality(Candidates) > 2
    /\ Len(result.sources) = 2
    /\ result.sources[1].chunk_id > result.sources[2].chunk_id

(***************************************************************************)
(* Properties of the retrieval calls (checked under SpecRetrieve).         *)
(***************************************************************************)
\* C28: query and get_relevant_documents leave the store unchanged: across
\* every such call, with any arguments, self.documents after the call is the
\* list it was before: same number of passages, same order, same text and
\* metadata of each.
C28_ReadOnlyCalls ==
    [][pc' \in {"query", "get_relevant_documents"} => documents' = documents]_vars

\* a get_relevant_documents call has returned passages of a store of two or
\* more, which holds the long one
C28_Witness ==
    /\ pc = "get_relevant_documents"
    /\ Len(documents) >= 2
    /\ documents[1] = VeryLongDoc
    /\ relevant # <<>>

(***************************************************************************)
(* Properties of a passage across add_documents calls (checked under Spec).*)
(***************************************************************************)
\* C29: when a query is followed, after any number of add_documents calls,
\* by a query with the same question, a passage that both report under the
\* same chunk_id is reported with the same relevance_score, text and
\* metadata, and when the second top_k is at least the size of the store
\* every source of the first query is a source of the second: the passages
\* added in between change neither the score nor the id of a stored passage.
C29_AddsKeepScores ==
    [][(pc' = "query" /\ question' = question)
       => LET old == result.sources
              new == result'.sources
          IN /\ \A i \in 1..Len(old), j \in 1..Len(new) :
                    old[i].chunk_id = new[j].chunk_id => old[i] = new[j]
             /\ top_k' >= Len(documents')
                    => \A i \in 1..Len(old) :
                           \E j \in 1..Len(new) : new[j] = old[i]]_vars

\* C29 case: a query has reported a passage, and add_documents has since
\* put into the store a passage that scores higher for the same question
C29_Witness ==
    /\ pc = "add_documents"
    /\ result.sources # <<>>
    /\ added # <<>>
    /\ Scored[question][added[1].text].included
    /\ Scored[question][added[1].text].final_score
           > result.sources[1].relevance_score

(***************************************************************************)
(* Properties of get_relevant_documents (checked under SpecRetrieve).      *)
(***************************************************************************)
\* the entry reports the stored passage at its rank, with score 0.8, and the
\* lowercased text of that passage contains one of the first three tokens
\* of the lowercased query
ReportsMatchingPassage(entry) ==
    /\ entry.rank \in 1..Len(documents)
    /\ entry.score = RetrieveScore
    /\ LET t == documents[entry.rank].text
           tokens == split(lower(question))
       IN \E n \in 1..Min(3, Len(tokens)) : Contains(lower(t), tokens[n])

\* C30: get_relevant_documents(query, k) returns at most k entries, in store
\* insertion order; each reports a stored passage whose lowercased text
\* contains one of the first three whitespace-split tokens of the lowercased
\* query, with score 0.8 and rank the 1-based store position of the
\* passage; a query with no tokens returns an empty list.
C30_RetrieveResult ==
    pc = "get_relevant_documents"
    => /\ Len(relevant) <= Max(top_k, 0)
       /\ \A i \in 1..Len(relevant) : ReportsMatchingPassage(relevant[i])
       /\ \A i \in 1..Len(relevant), j \in 1..Len(relevant) :
              i < j => relevant[i].rank < relevant[j].rank
       /\ split(lower(question)) = <<>> => relevant = <<>>

====
